---- MODULE Spec2Model ----
(***************************************************************************)
(* Model of zephyr/handlers.py: format_record, AdminHumbugHandler (emit,   *)
(* format_subject) and HumbugAdminEmailHandler (emit).                     *)
(*                                                                         *)
(* A text is a sequence of strings whose concatenation is the Python       *)
(* string.  A text handled character by character (the record message,    *)
(* the subject) is a sequence of one-character strings.                    *)
(*                                                                         *)
(* The outcome of a call is a record [raised, val]: raised is "none" when  *)
(* the call returns val, "Exception" when it raises an exception derived   *)
(* from Exception, and "BaseException" when it raises one that is not      *)
(* (KeyboardInterrupt, SystemExit, GeneratorExit).                         *)
(***************************************************************************)
EXTENDS Naturals, Sequences, FiniteSets

VARIABLES
    pc,            \* position of the call in progress
    op,            \* the operation called: "bus", "mail", "format_record", "format_subject"
    record,        \* the LogRecord handed to the operation
    include_html,  \* HumbugAdminEmailHandler.include_html
    arg,           \* the argument of a direct format_subject call
    result,        \* the value a direct format_subject call returned
    request_repr,  \* local request_repr of emit
    request,       \* local request of HumbugAdminEmailHandler.emit: "unset", "request", "None"
    formatted,     \* the triple format_record returned: [subject, stack_trace, user_info]
    html_message,  \* local html_message of HumbugAdminEmailHandler.emit
    sent,          \* the calls made to internal_send_message
    mails,         \* the calls made to mail.mail_admins
    logcalls,      \* the calls made to the logging module by the handler
    raised,        \* what the operation raised to its caller ("none": it returned, or runs)
    raisedAt,      \* the source line whose exception left the operation (0: none)
    reqBuild,      \* how the request block's try body ended: "unset", "ok", or what it raised
    userTried,     \* whether format_record entered the try of line 22
    htmlBuild,     \* how the try body building html_message ended
    sendOutcome    \* how internal_send_message, or mail_admins, ended

vars == <<pc, op, record, include_html, arg, result, request_repr, request, formatted,
          html_message, sent, mails, logcalls, raised, raisedAt, reqBuild, userTried,
          htmlBuild, sendOutcome>>

-----------------------------------------------------------------------------
(* Bounds and constants *)

\* Longest tail, after the padding, of a subject handed to format_subject.
MaxTail == 2

\* zephyr.models.MAX_SUBJECT_LENGTH
MAX_SUBJECT_LENGTH == 60

\* The characters subjects are made of.
Alphabet == {"a", "\n", "\r", "\\"}

\* How a collaborator's call can end.
Outcomes == {"none", "Exception", "BaseException"}

-----------------------------------------------------------------------------
(* Values *)

Return(v) == [raised |-> "none", val |-> v]

Raise(kind) == [raised |-> kind, val |-> <<>>]

\* Python's None against a text.
None == [some |-> FALSE, text |-> <<>>]

Some(t) == [some |-> TRUE, text |-> t]

Min(a, b) == IF a < b THEN a ELSE b

Pad(k) == [i \in 1..k |-> "a"]

\* All texts over Alphabet of length at most n.
Strings(n) == UNION {[1..k -> Alphabet] : k \in 0..n}

\* s[:n]
Take(s, n) == SubSeq(s, 1, Min(n, Len(s)))

\* s.replace(c, rep), character by character.
RECURSIVE Replace(_, _, _)
Replace(s, c, rep) ==
    IF s = <<>> THEN <<>>
    ELSE (IF Head(s) = c THEN rep ELSE <<Head(s)>>) \o Replace(Tail(s), c, rep)

\* ''.join(lines)
RECURSIVE Join(_)
Join(lines) == IF lines = <<>> THEN <<>> ELSE Head(lines) \o Join(Tail(lines))

-----------------------------------------------------------------------------
(* Log records *)

\* platform.node()
Node == <<"h">>

\* record.exc_info: None, a triple (type, value, traceback) with the traceback's
\* frames (none: the traceback is None), or a tuple that is no triple.
NoExcInfo == [kind |-> "none", etype |-> "", value |-> "", tb |-> <<>>]

ExcInfos ==
    { NoExcInfo,
      [kind |-> "malformed", etype |-> "", value |-> "", tb |-> <<>>],
      [kind |-> "triple", etype |-> "ValueError", value |-> "bad", tb |-> <<"f", "g">>],
      [kind |-> "triple", etype |-> "KeyError", value |-> "", tb |-> <<>>] }

\* record.msg and record.args: the text getMessage renders, and whether the
\* arguments fit the format string.
BadArgs == [args_ok |-> FALSE, text |-> <<>>]

Messages ==
    { BadArgs,
      [args_ok |-> TRUE, text |-> <<"a", "\n", "\\", "\r">>],
      [args_ok |-> TRUE, text |-> Pad(MAX_SUBJECT_LENGTH - 4) \o <<"\n", "\r">>] }

\* request.user: an authenticated user, AnonymousUser (no userprofile attribute),
\* a user whose profile row is missing (DoesNotExist), a request without a user
\* attribute, and a user object whose read raises an exception not derived from
\* Exception.
UserKinds == {"ok", "anonymous", "no_profile", "no_user", "interrupt"}

Users == {[kind |-> k, full_name |-> "Alice", email |-> "alice@x.com"] : k \in UserKinds}

MetaFields == <<"REMOTE_ADDR", "QUERY_STRING", "SERVER_NAME">>

MetaValue(field) ==
    CASE field = "REMOTE_ADDR" -> "10.0.0.1"
      [] field = "QUERY_STRING" -> "x=1"
      [] field = "SERVER_NAME" -> "srv"

\* request.META: the keys it holds.
Metas == SUBSET {MetaFields[i] : i \in 1..Len(MetaFields)}

RequestAttrs == {"path", "method", "GET", "META"}

\* The attributes a request object has: all, or all but one.
AttrSets == {RequestAttrs} \cup {RequestAttrs \ {a} : a \in RequestAttrs}

\* record.request is not set.
NoRequest ==
    [attached |-> FALSE, attrs |-> {}, path |-> "", method |-> "", GET |-> "",
     POST |-> "", META |-> {}, user |-> [kind |-> "no_user", full_name |-> "", email |-> ""]]

Requests(attrsets, methods, posts, metas, users) ==
    { [attached |-> TRUE, attrs |-> a, path |-> "/foo", method |-> m, GET |-> "x=1",
       POST |-> p, META |-> mm, user |-> u] :
        a \in attrsets, m \in methods, p \in posts, mm \in metas, u \in users }

Alice == [kind |-> "ok", full_name |-> "Alice", email |-> "alice@x.com"]

AnonymousUser == [kind |-> "anonymous", full_name |-> "Alice", email |-> "alice@x.com"]

\* The requests handed to AdminHumbugHandler.emit.
BusRequests ==
    {NoRequest} \cup
    Requests(AttrSets, {"GET", "POST", "PUT"}, {"a=1", "password=hunter2"}, Metas,
             {Alice, AnonymousUser})

\* The requests handed to format_record and to HumbugAdminEmailHandler.emit,
\* which read the user and hand the request to the framework.
UserRequests ==
    {NoRequest} \cup Requests({RequestAttrs}, {"GET"}, {"a=1"}, {{"REMOTE_ADDR"}}, Users)

Records(requests) ==
    { [msg |-> m, exc_info |-> e, request |-> r] :
        m \in Messages, e \in ExcInfos, r \in requests }

\* The subjects handed to format_subject: a tail of any characters after padding
\* that brings it up to the limit.
PadLens == {0} \cup {k \in 0..MAX_SUBJECT_LENGTH : k + MaxTail + 1 >= MAX_SUBJECT_LENGTH}

Subjects == {Pad(k) \o t : k \in PadLens, t \in Strings(MaxTail)}

-----------------------------------------------------------------------------
(* format_record *)

\* record.getMessage(): msg % args, a TypeError when the arguments do not fit.
GetMessage(rec) ==
    IF rec.msg.args_ok THEN Return(rec.msg.text) ELSE Raise("Exception")

\* traceback.format_exception(etype, value, tb): the list of lines.
FormatException(ei) ==
    (IF ei.tb = <<>> THEN <<>> ELSE <<<<"Traceback (most recent call last):\n">>>>)
    \o [i \in 1..Len(ei.tb) |-> <<"  File ", ei.tb[i], "\n">>]
    \o <<(IF ei.value = "" THEN <<ei.etype, "\n">> ELSE <<ei.etype, ": ", ei.value, "\n">>)>>

\* Lines 17-20: the stack trace; format_exception(*exc_info) of a tuple that is
\* no triple is a TypeError.
StackTraceWithoutFallback(rec) ==
    IF rec.exc_info.kind = "malformed" THEN Raise("Exception")
    ELSE Return(Join(FormatException(rec.exc_info)))

StackTrace(rec) ==
    IF rec.exc_info.kind # "none"
    THEN IF rec.exc_info.kind = "malformed" THEN Raise("Exception")
         ELSE Return(Join(FormatException(rec.exc_info)))
    ELSE Return(<<"No stack trace available">>)

\* except Exception:
ExceptException(kind) == kind = "Exception"

\* except:
BareExceptOnlyException(kind) == kind = "Exception"

BareExcept(kind) == kind # "none"

\* Lines 23-24, the try body: record.request.user, user.userprofile.full_name,
\* user.email.
ReadUser(rec) ==
    IF ~rec.request.attached THEN Raise("Exception")
    ELSE CASE rec.request.user.kind = "ok" ->
                Return(<<rec.request.user.full_name, " (", rec.request.user.email, ")">>)
           [] rec.request.user.kind = "interrupt" -> Raise("BaseException")
           [] OTHER -> Raise("Exception")

\* Lines 22-27.
UserInfo(rec) ==
    LET u == ReadUser(rec) IN
    IF u.raised = "none" THEN u
    ELSE IF ExceptException(u.raised) THEN Return(<<"Anonymous user (not logged in)">>)
    ELSE u

NoTriple == [subject |-> <<>>, stack_trace |-> <<>>, user_info |-> <<>>]

\* format_record(record): what it raises, where, and the triple it returns.
format_record(rec) ==
    LET m == GetMessage(rec)
        st == StackTrace(rec)
        u == UserInfo(rec)
    IN  IF m.raised # "none"
        THEN [raised |-> m.raised, at |-> 15, val |-> NoTriple]
        ELSE IF st.raised # "none"
        THEN [raised |-> st.raised, at |-> 18, val |-> NoTriple]
        ELSE IF u.raised # "none"
        THEN [raised |-> u.raised, at |-> 23, val |-> NoTriple]
        ELSE [raised |-> "none", at |-> 0,
              val |-> [subject |-> Node \o <<":", " ">> \o m.val,
                       stack_trace |-> st.val,
                       user_info |-> u.val]]

-----------------------------------------------------------------------------
(* AdminHumbugHandler.format_subject *)

format_subject_truncates_first(subject) ==
    Replace(Replace(Take(subject, MAX_SUBJECT_LENGTH), "\n", <<"\\", "n">>),
            "\r", <<"\\", "r">>)

format_subject(subject) ==
    LET formatted_subject ==
            Replace(Replace(subject, "\n", <<"\\", "n">>), "\r", <<"\\", "r">>)
    IN  Take(formatted_subject, MAX_SUBJECT_LENGTH)

-----------------------------------------------------------------------------
(* AdminHumbugHandler.emit: the request block *)

\* "%s" % (request.GET,): the text of a QueryDict.
QueryDictText(params) == <<"<QueryDict: ", params, ">">>

\* filter.get_post_parameters(request): the POST parameters with the sensitive
\* ones replaced by stars.
FilteredPost(req) == IF req.POST = "password=hunter2" THEN "password=********" ELSE req.POST

\* request.META.get(field, "(None)")
MetaGet(req, field) == IF field \in req.META THEN MetaValue(field) ELSE "(None)"

\* Line 60, for one field.
MetaLine(req, field) == <<"- ", field, ": \"", MetaGet(req, field), "\"\n">>

\* Lines 59-60.
MetaLines(req) == Join([i \in 1..Len(MetaFields) |-> MetaLine(req, MetaFields[i])])

\* Lines 55-58: the line of the parameters.
ParamsLineRawPost(req) ==
    IF req.method = "GET" THEN <<"- GET: ">> \o QueryDictText(req.GET) \o <<"\n">>
    ELSE IF req.method = "POST"
    THEN <<"- POST: ">> \o QueryDictText(req.POST) \o <<"\n">>
    ELSE <<>>

ParamsLine(req) ==
    IF req.method = "GET" THEN <<"- GET: ">> \o QueryDictText(req.GET) \o <<"\n">>
    ELSE IF req.method = "POST"
    THEN <<"- POST: ">> \o QueryDictText(FilteredPost(req)) \o <<"\n">>
    ELSE <<>>

\* Lines 50-61, the try body: the request summary, or what it raises.  getFilter
\* is how get_exception_reporter_filter ends and postFilter how
\* filter.get_post_parameters ends; reading an attribute the request does not
\* have is an AttributeError.
RequestSummary(rec, getFilter, postFilter) ==
    LET req == rec.request IN
    IF ~req.attached THEN Raise("Exception")
    ELSE IF getFilter # "none" THEN Raise(getFilter)
    ELSE IF "path" \notin req.attrs THEN Raise("Exception")
    ELSE IF "method" \notin req.attrs THEN Raise("Exception")
    ELSE IF req.method = "GET" /\ "GET" \notin req.attrs THEN Raise("Exception")
    ELSE IF req.method = "POST" /\ postFilter # "none" THEN Raise(postFilter)
    ELSE IF "META" \notin req.attrs THEN Raise("Exception")
    ELSE Return(<<"Request info:\n~~~~\n">>
                \o <<"- path: ", req.path, "\n">>
                \o ParamsLine(req)
                \o MetaLines(req)
                \o <<"~~~~">>)

\* Line 63 and line 98.
Fallback(message) == <<"Log record message:\n">> \o message

\* Lines 70-71.
BusBody(user_info, stack_trace, repr) ==
    <<"Error generated by ">> \o user_info \o <<"\n\n~~~~ pytb\n">> \o stack_trace
    \o <<"\n\n~~~~\n">> \o repr

\* Lines 68-71: the call of internal_send_message.
BusMessage(triple, repr) ==
    [sender |-> "humbug+errors@humbughq.com",
     recipient_type |-> "Recipient.STREAM",
     stream |-> "devel",
     subject |-> format_subject(triple.subject),
     content |-> BusBody(triple.user_info, triple.stack_trace, repr)]

\* Line 75: logging.warning(..., exc_info=True)
WarningCall ==
    [level |-> "warning", msg |-> "Reporting an exception triggered an exception!",
     exc_info |-> TRUE]

-----------------------------------------------------------------------------
(* HumbugAdminEmailHandler.emit *)

\* filter.get_request_repr(request)
RequestRepr(req) == <<"<WSGIRequest\npath:", req.path, ",\nGET:", req.GET, ",\n...>">>

\* Lines 93-95, the try body.  getFilter is how get_exception_reporter_filter
\* ends and getRepr how filter.get_request_repr ends.
MailRequestRepr(rec, getFilter, getRepr) ==
    IF ~rec.request.attached THEN Raise("Exception")
    ELSE IF getFilter # "none" THEN Raise(getFilter)
    ELSE IF getRepr # "none" THEN Raise(getRepr)
    ELSE Return(RequestRepr(rec.request))

\* Lines 101-102.
MailBody(user_info, stack_trace, repr) ==
    <<"Error generated by ">> \o user_info \o <<"\n\n">> \o stack_trace \o <<"\n\n">> \o repr

\* The texts reporter.get_traceback_html() returns.
HtmlTexts == {<<>>, <<"<html>traceback</html>">>}

\* Line 106: self.include_html and reporter.get_traceback_html() or None, with
\* the HTML the reporter returns.
HtmlOrNone(include, html) == IF include /\ html # <<>> THEN Some(html) ELSE None

\* Lines 105-106, the try body: what it raises.  ExceptionReporter(request,
\* is_email=True, *record.exc_info) is a TypeError when exc_info is None;
\* construct is how the constructor ends otherwise, and render how
\* get_traceback_html ends, which is called only when include_html is set.
HtmlBuildRaises(rec, include, construct, render) ==
    IF rec.exc_info.kind = "none" THEN "Exception"
    ELSE IF construct # "none" THEN construct
    ELSE IF include /\ render # "none" THEN render
    ELSE "none"

\* How the call of mail.mail_admins can end: it returns, the mail transport
\* fails, or it raises for another reason an exception derived from Exception
\* or one that is not.
MailOutcomes == {"none", "transport", "Exception", "BaseException"}

\* mail.mail_admins(..., fail_silently=...): what it raises to line 109.  A
\* failure of the transport is raised unless fail_silently is set; any other
\* exception is raised whatever fail_silently is.
MailAdminsRaises(fail_silently, outcome) ==
    IF outcome = "transport"
    THEN (IF fail_silently THEN "none" ELSE "Exception")
    ELSE outcome

\* Lines 109-110: the call of mail.mail_admins; the subject goes through the
\* format_subject the handler inherits from AdminEmailHandler.
MailCall(triple, repr, html) ==
    [subject |-> [formatted_by |-> "AdminEmailHandler.format_subject",
                  subject |-> triple.subject],
     message |-> MailBody(triple.user_info, triple.stack_trace, repr),
     fail_silently |-> TRUE,
     html_message |-> html]

-----------------------------------------------------------------------------
(* The state machine: one call at a time of emit, of format_record or of     *)
(* format_subject, made by the logging framework or by a caller.             *)

NoRecord == [msg |-> BadArgs, exc_info |-> NoExcInfo, request |-> NoRequest]

Init ==
    /\ pc = "idle"
    /\ op = "none"
    /\ record = NoRecord
    /\ include_html = FALSE
    /\ arg = <<>>
    /\ result = <<>>
    /\ request_repr = <<>>
    /\ request = "unset"
    /\ formatted = NoTriple
    /\ html_message = None
    /\ sent = <<>>
    /\ mails = <<>>
    /\ logcalls = <<>>
    /\ raised = "none"
    /\ raisedAt = 0
    /\ reqBuild = "unset"
    /\ userTried = FALSE
    /\ htmlBuild = "unset"
    /\ sendOutcome = "unset"

\* The logging framework calls AdminHumbugHandler.emit(record).
CallEmitBus ==
    /\ pc = "idle"
    /\ \E r \in Records(BusRequests) : record' = r
    /\ op' = "bus"
    /\ pc' = "bus_request"
    /\ UNCHANGED <<include_html, arg, result, request_repr, request, formatted,
                   html_message, sent, mails, logcalls, raised, raisedAt, reqBuild,
                   userTried, htmlBuild, sendOutcome>>

\* The exception kind leaves the operation from line `at`.
Propagate(kind, at) ==
    /\ pc' = "done"
    /\ raised' = kind
    /\ raisedAt' = at

\* Lines 49-63 of AdminHumbugHandler.emit.
BusBuildRequest ==
    /\ pc = "bus_request"
    /\ \E getFilter \in Outcomes, postFilter \in Outcomes :
         LET r == RequestSummary(record, getFilter, postFilter)
             m == GetMessage(record)
         IN  /\ reqBuild' = (IF r.raised = "none" THEN "ok" ELSE r.raised)
             /\ IF r.raised = "none"
                THEN /\ request_repr' = r.val
                     /\ pc' = "format_record"
                     /\ UNCHANGED <<raised, raisedAt>>
                ELSE IF ExceptException(r.raised)
                THEN IF m.raised = "none"
                     THEN /\ request_repr' = Fallback(m.val)
                          /\ pc' = "format_record"
                          /\ UNCHANGED <<raised, raisedAt>>
                     ELSE /\ Propagate(m.raised, 63)
                          /\ UNCHANGED request_repr
                ELSE /\ Propagate(r.raised, 50)
                     /\ UNCHANGED request_repr
    /\ UNCHANGED <<op, record, include_html, arg, result, request, formatted,
                   html_message, sent, mails, logcalls, userTried, htmlBuild, sendOutcome>>

\* A caller calls format_record(record).
CallFormatRecord ==
    /\ pc = "idle"
    /\ \E r \in Records(UserRequests) : record' = r
    /\ op' = "format_record"
    /\ pc' = "format_record"
    /\ UNCHANGED <<include_html, arg, result, request_repr, request, formatted,
                   html_message, sent, mails, logcalls, raised, raisedAt, reqBuild,
                   userTried, htmlBuild, sendOutcome>>

\* Lines 10-29, called from line 65, from line 100 or by a caller.
FormatRecord ==
    /\ pc = "format_record"
    /\ LET f == format_record(record) IN
         /\ userTried' = (f.raised = "none" \/ f.at = 23)
         /\ IF f.raised = "none"
            THEN /\ formatted' = f.val
                 /\ pc' = (CASE op = "bus" -> "bus_send"
                             [] op = "mail" -> "mail_html"
                             [] OTHER -> "done")
                 /\ UNCHANGED <<raised, raisedAt>>
            ELSE /\ Propagate(f.raised, f.at)
                 /\ UNCHANGED formatted
    /\ UNCHANGED <<op, record, include_html, arg, result, request_repr, request,
                   html_message, sent, mails, logcalls, reqBuild, htmlBuild, sendOutcome>>

\* Lines 67-75 of AdminHumbugHandler.emit.
BusSend ==
    /\ pc = "bus_send"
    /\ \E outcome \in Outcomes :
         /\ sent' = Append(sent, BusMessage(formatted, request_repr))
         /\ sendOutcome' = outcome
         /\ IF outcome = "none"
            THEN /\ pc' = "done"
                 /\ UNCHANGED <<logcalls, raised, raisedAt>>
            ELSE IF BareExcept(outcome)
            THEN /\ logcalls' = Append(logcalls, WarningCall)
                 /\ pc' = "done"
                 /\ UNCHANGED <<raised, raisedAt>>
            ELSE /\ Propagate(outcome, 68)
                 /\ UNCHANGED logcalls
    /\ UNCHANGED <<op, record, include_html, arg, result, request_repr, request,
                   formatted, html_message, mails, reqBuild, userTried, htmlBuild>>

\* The logging framework calls HumbugAdminEmailHandler.emit(record), on a
\* handler configured with or without include_html.
CallEmitMail ==
    /\ pc = "idle"
    /\ \E r \in Records(UserRequests) : record' = r
    /\ \E h \in BOOLEAN : include_html' = h
    /\ op' = "mail"
    /\ pc' = "mail_request"
    /\ UNCHANGED <<arg, result, request_repr, request, formatted, html_message, sent,
                   mails, logcalls, raised, raisedAt, reqBuild, userTried, htmlBuild,
                   sendOutcome>>

\* Lines 92-98 of HumbugAdminEmailHandler.emit.
MailBuildRequest ==
    /\ pc = "mail_request"
    /\ \E getFilter \in Outcomes, getRepr \in Outcomes :
         LET r == MailRequestRepr(record, getFilter, getRepr)
             m == GetMessage(record)
         IN  /\ reqBuild' = (IF r.raised = "none" THEN "ok" ELSE r.raised)
             /\ IF r.raised = "none"
                THEN /\ request' = "request"
                     /\ request_repr' = r.val
                     /\ pc' = "format_record"
                     /\ UNCHANGED <<raised, raisedAt>>
                ELSE IF ExceptException(r.raised)
                THEN /\ request' = "None"
                     /\ IF m.raised = "none"
                        THEN /\ request_repr' = Fallback(m.val)
                             /\ pc' = "format_record"
                             /\ UNCHANGED <<raised, raisedAt>>
                        ELSE /\ Propagate(m.raised, 98)
                             /\ UNCHANGED request_repr
                ELSE /\ Propagate(r.raised, 93)
                     /\ UNCHANGED <<request, request_repr>>
    /\ UNCHANGED <<op, record, include_html, arg, result, formatted, html_message,
                   sent, mails, logcalls, userTried, htmlBuild, sendOutcome>>

\* Lines 104-108 of HumbugAdminEmailHandler.emit.
MailHtml ==
    /\ pc = "mail_html"
    /\ \E construct \in Outcomes, render \in Outcomes, html \in HtmlTexts :
         LET r == HtmlBuildRaises(record, include_html, construct, render) IN
         /\ htmlBuild' = (IF r = "none" THEN "ok" ELSE r)
         /\ IF r = "none"
            THEN /\ html_message' = HtmlOrNone(include_html, html)
                 /\ pc' = "mail_send"
                 /\ UNCHANGED <<raised, raisedAt>>
            ELSE IF ExceptException(r)
            THEN /\ html_message' = None
                 /\ pc' = "mail_send"
                 /\ UNCHANGED <<raised, raisedAt>>
            ELSE /\ Propagate(r, 105)
                 /\ UNCHANGED html_message
    /\ UNCHANGED <<op, record, include_html, arg, result, request_repr, request,
                   formatted, sent, mails, logcalls, reqBuild, userTried, sendOutcome>>

\* Lines 109-110 of HumbugAdminEmailHandler.emit: the call is in no try, and
\* what mail_admins raises leaves emit.
MailSend ==
    /\ pc = "mail_send"
    /\ \E outcome \in MailOutcomes :
         LET call == MailCall(formatted, request_repr, html_message)
             r == MailAdminsRaises(call.fail_silently, outcome)
         IN  /\ mails' = Append(mails, call)
             /\ sendOutcome' = outcome
             /\ IF r = "none"
                THEN /\ pc' = "done"
                     /\ UNCHANGED <<raised, raisedAt>>
                ELSE Propagate(r, 109)
    /\ UNCHANGED <<op, record, include_html, arg, result, request_repr, request,
                   formatted, html_message, sent, logcalls, reqBuild, userTried,
                   htmlBuild>>

\* A caller calls format_subject(subject).
CallFormatSubject ==
    /\ pc = "idle"
    /\ \E s \in Subjects : arg' = s
    /\ op' = "format_subject"
    /\ pc' = "format_subject"
    /\ UNCHANGED <<record, include_html, result, request_repr, request, formatted,
                   html_message, sent, mails, logcalls, raised, raisedAt, reqBuild,
                   userTried, htmlBuild, sendOutcome>>

\* Lines 77-83.
FormatSubject ==
    /\ pc = "format_subject"
    /\ result' = format_subject(arg)
    /\ pc' = "done"
    /\ UNCHANGED <<op, record, include_html, arg, request_repr, request, formatted,
                   html_message, sent, mails, logcalls, raised, raisedAt, reqBuild,
                   userTried, htmlBuild, sendOutcome>>

\* The operation has returned or raised; the handlers keep no state, and the
\* next call starts afresh.
NextCall ==
    /\ pc = "done"
    /\ pc' = "idle"
    /\ op' = "none"
    /\ record' = NoRecord
    /\ include_html' = FALSE
    /\ arg' = <<>>
    /\ result' = <<>>
    /\ request_repr' = <<>>
    /\ request' = "unset"
    /\ formatted' = NoTriple
    /\ html_message' = None
    /\ sent' = <<>>
    /\ mails' = <<>>
    /\ logcalls' = <<>>
    /\ raised' = "none"
    /\ raisedAt' = 0
    /\ reqBuild' = "unset"
    /\ userTried' = FALSE
    /\ htmlBuild' = "unset"
    /\ sendOutcome' = "unset"

Next ==
    \/ CallEmitBus
    \/ BusBuildRequest
    \/ CallFormatRecord
    \/ FormatRecord
    \/ BusSend
    \/ CallEmitMail
    \/ MailBuildRequest
    \/ MailHtml
    \/ MailSend
    \/ CallFormatSubject
    \/ FormatSubject
    \/ NextCall

Spec == Init /\ [][Next]_vars

-----------------------------------------------------------------------------
(* Properties *)

BusDone == pc = "done" /\ op = "bus"

MailDone == pc = "done" /\ op = "mail"

\* format_record has returned its triple (a subject is never empty).
FormatReturned == formatted.subject # <<>>

Anonymous == <<"Anonymous user (not logged in)">>

\* The text "Log record message:\n<message>" of the record at hand.
FallbackBlock == <<"Log record message:\n">> \o record.msg.text

\* C1: AdminHumbugHandler.emit never raises to its caller, whatever the record
\* and whatever its collaborators do.
C1_EmitNeverRaises == BusDone => raised = "none"

\* C2: when internal_send_message raises, whatever the exception, emit makes
\* exactly one logging call, at warning level with the exception attached, none
\* at error level, calls internal_send_message no second time and returns
\* normally.
C2_SendFailureWarnsOnce ==
    (BusDone /\ sendOutcome \in {"Exception", "BaseException"}) =>
        /\ raised = "none"
        /\ Len(logcalls) = 1
        /\ logcalls[1].level = "warning"
        /\ logcalls[1].exc_info
        /\ Len(sent) = 1

C2_Witness ==
    /\ BusDone
    /\ sendOutcome = "BaseException"
    /\ Len(logcalls) = 1
    /\ raised = "none"

\* The subject with each newline written as backslash n and each carriage
\* return as backslash r.
Escaped(s) ==
    Join([i \in 1..Len(s) |->
            IF s[i] = "\n" THEN <<"\\", "n">>
            ELSE IF s[i] = "\r" THEN <<"\\", "r">>
            ELSE <<s[i]>>])

\* out is what format_subject may return for subject.
SubjectFormatted(subject, out) ==
    /\ \A i \in 1..Len(out) : out[i] \notin {"\n", "\r"}
    /\ Len(out) <= Len(Escaped(subject))
    /\ out = SubSeq(Escaped(subject), 1, Len(out))
    /\ Len(out) <= MAX_SUBJECT_LENGTH

\* C3: format_subject returns a text without newline or carriage return, which
\* is a prefix of the escaped subject and no longer than MAX_SUBJECT_LENGTH;
\* this holds of a direct call and of the subject emit sends.
C3_FormatSubject ==
    /\ (pc = "done" /\ op = "format_subject") => SubjectFormatted(arg, result)
    /\ \A i \in 1..Len(sent) : SubjectFormatted(formatted.subject, sent[i].subject)

C3_Witness ==
    /\ pc = "done"
    /\ op = "format_subject"
    /\ \E i \in 1..Len(arg) : arg[i] = "\n"
    /\ \E i \in 1..Len(arg) : arg[i] = "\r"
    /\ Len(Escaped(arg)) > MAX_SUBJECT_LENGTH
    /\ Len(result) = MAX_SUBJECT_LENGTH

\* C4: whenever building the request summary fails, the request block of the
\* body sent is exactly "Log record message:\n<message>" and emit goes on to
\* send the message instead of raising.
C4_FallbackThenSend ==
    (BusDone /\ reqBuild \in {"Exception", "BaseException"}) =>
        /\ raised = "none"
        /\ request_repr = FallbackBlock
        /\ Len(sent) = 1
        /\ sent[1].content =
              BusBody(formatted.user_info, formatted.stack_trace, FallbackBlock)

\* C5: HumbugAdminEmailHandler.emit never raises and calls mail_admins exactly
\* once, with fail_silently set, whatever the record and the collaborators do;
\* when building the request representation fails the request is None and the
\* representation is "Log record message:\n<message>".
C5_MailNeverRaises ==
    MailDone =>
        /\ raised = "none"
        /\ Len(mails) = 1
        /\ mails[1].fail_silently
        /\ (reqBuild # "ok" => request = "None" /\ request_repr = FallbackBlock)

\* The cases in which the claim has no HTML body: include_html is off, the
\* record has no exception info, or the reporter raised one of `kinds`.
NoHtmlCase(kinds) ==
    \/ ~include_html
    \/ record.exc_info.kind = "none"
    \/ htmlBuild \in kinds

\* C6: html_message is a non-empty text only if include_html is on
\* and the record has exception info; when include_html is off, exception info
\* is absent or the exception reporter raises, html_message is None and the
\* mail is still sent.
C6_HtmlOnlyWhenAsked ==
    (MailDone /\ htmlBuild # "unset") =>
        /\ html_message.some =>
              include_html /\ record.exc_info.kind # "none" /\ html_message.text # <<>>
        /\ NoHtmlCase({"Exception", "BaseException"}) =>
              /\ html_message = None
              /\ Len(mails) = 1
              /\ mails[1].html_message = None

\* The reads of the try at line 22 all succeed.
UserReadable == record.request.attached /\ record.request.user.kind = "ok"

\* C7: user_info is "<full name> (<email>)" exactly when the user
\* can be read, and on any failure of the reads, whatever the exception,
\* user_info is "Anonymous user (not logged in)" and format_record returns its
\* triple.
C7_UserInfo ==
    userTried =>
        /\ FormatReturned
        /\ IF UserReadable
           THEN formatted.user_info =
                   <<record.request.user.full_name, " (", record.request.user.email, ")">>
           ELSE formatted.user_info = Anonymous

\* C8: the stack trace format_record returns is "No stack trace available" if
\* and only if the record has no exception info, it is the concatenation of the
\* lines of format_exception when the record has some, and a record without
\* exception info never makes line 18 raise.
C8_StackTrace ==
    /\ FormatReturned =>
          /\ (formatted.stack_trace = <<"No stack trace available">>)
                <=> (record.exc_info.kind = "none")
          /\ record.exc_info.kind # "none" =>
                formatted.stack_trace = Join(FormatException(record.exc_info))
    /\ (record.exc_info.kind = "none" /\ raised # "none") => raisedAt # 18

C8_Witness ==
    /\ pc = "done"
    /\ op = "format_record"
    /\ FormatReturned
    /\ record.exc_info.kind = "triple"
    /\ record.exc_info.tb # <<>>
    /\ Len(formatted.stack_trace) > 1

\* The line of a metadata field, "(None)" standing for an absent key.
ExpectedMetaLine(field) ==
    <<"- ", field, ": \"",
      (IF field \in record.request.META THEN MetaValue(field) ELSE "(None)"),
      "\"\n">>

\* C9: a request summary built without failure holds, between its opening and
\* closing lines, the path line, then the GET line with the GET parameters if
\* the method is GET or the POST line with the filtered POST parameters if it
\* is POST, then the lines of REMOTE_ADDR, QUERY_STRING and SERVER_NAME in this
\* order, "(None)" standing for an absent key.
C9_RequestSummary ==
    (op = "bus" /\ reqBuild = "ok") =>
        request_repr =
            <<"Request info:\n~~~~\n">>
            \o <<"- path: ", record.request.path, "\n">>
            \o (CASE record.request.method = "GET" ->
                        <<"- GET: ", "<QueryDict: ", record.request.GET, ">", "\n">>
                  [] record.request.method = "POST" ->
                        <<"- POST: ", "<QueryDict: ",
                          (IF record.request.POST = "password=hunter2"
                           THEN "password=********" ELSE record.request.POST),
                          ">", "\n">>
                  [] OTHER -> <<>>)
            \o ExpectedMetaLine("REMOTE_ADDR")
            \o ExpectedMetaLine("QUERY_STRING")
            \o ExpectedMetaLine("SERVER_NAME")
            \o <<"~~~~">>

C9_Witness ==
    /\ BusDone
    /\ reqBuild = "ok"
    /\ record.request.method = "POST"
    /\ record.request.POST = "password=hunter2"
    /\ record.request.META = {"QUERY_STRING"}
    /\ Len(sent) = 1

\* C10: every call of AdminHumbugHandler.emit calls internal_send_message
\* exactly once, with the sender "humbug+errors@humbughq.com", a stream
\* recipient, the stream "devel", the subject passed through format_subject and
\* the body "Error generated by <user_info>\n\n~~~~ pytb\n<stack_trace>\n\n~~~~\n
\* <request_repr>".
C10_OneSendPerEmit ==
    BusDone =>
        /\ Len(sent) = 1
        /\ sent[1].sender = "humbug+errors@humbughq.com"
        /\ sent[1].recipient_type = "Recipient.STREAM"
        /\ sent[1].stream = "devel"
        /\ sent[1].subject = format_subject(formatted.subject)
        /\ sent[1].content =
              <<"Error generated by ">> \o formatted.user_info
              \o <<"\n\n~~~~ pytb\n">> \o formatted.stack_trace
              \o <<"\n\n~~~~\n">> \o request_repr

====
